---- MODULE Spec2Model ----
(***************************************************************************)
(* A model of the Aura SDK request pipeline: the error-shape predicate of  *)
(* AuraError, the dispatcher Aura.makeRequest, the cached lookups getAsset *)
(* and getAssetProof over a CacheProvider, and the paginate* generators.   *)
(***************************************************************************)
EXTENDS Integers, Sequences, FiniteSets, TLC

VARIABLES
    shapeIn,    \* the decoded body handed to AuraError.isAuraErrorResponse
                \* (<<>> where the predicate is not called on its own)
    shapeOut,   \* what the predicate answered for it ("none" before the call)
    shapeErr,   \* the AuraError constructed from it (<<>> in the same places)
    provider,   \* Aura.cacheProvider: "none", "memory" (MemoryCache) or "remote"
    cacheTTL,   \* Aura.cacheTTL, milliseconds
    cache,      \* the backend's map: key -> entry
    now,        \* Date.now(), milliseconds
    direct,     \* the calls made on a MemoryCache itself: per key the latest
                \* set or delete, and the latest get with what it resolved with
    calls,      \* one record per invocation of a promise-returning operation
    gens        \* one record per paginate* generator object

vars == <<shapeIn, shapeOut, shapeErr, provider, cacheTTL, cache, now, direct, calls, gens>>

-----------------------------------------------------------------------------
(* JavaScript values as JSON.parse produces them.  A number is n, or n + 1/2 *)
(* when half is set, so that a non-integer number exists.                    *)

Prim(t, n, half, s) == <<t, n, half, s>>
TagOf(v) == v[1]
NumberOf(v) == v[2]
HasHalf(v) == v[3]
StringOf(v) == v[4]

Undefined == Prim("undefined", 0, FALSE, "")
Null == Prim("null", 0, FALSE, "")
Num(n) == Prim("number", n, FALSE, "")
NumHalf(n) == Prim("number", n, TRUE, "")
Str(s) == Prim("string", 0, FALSE, s)
Arr == Prim("array", 0, FALSE, "")
Obj == Prim("object", 0, FALSE, "")

\* ToBoolean: what `&&`, `||` and `if` test.
Truthy(v) ==
    CASE TagOf(v) \in {"undefined", "null"} -> FALSE
      [] TagOf(v) = "number" -> ~(NumberOf(v) = 0 /\ ~HasHalf(v))
      [] TagOf(v) = "string" -> StringOf(v) # ""
      [] OTHER -> TRUE

\* typeof v
TypeOf(v) ==
    CASE TagOf(v) = "null" -> "object"
      [] TagOf(v) = "array" -> "object"
      [] OTHER -> TagOf(v)

\* The `error` member of a body: a value, and its own members when it is an object.
ErrVal(v, code, message) == [v |-> v, code |-> code, message |-> message]
NoErr == ErrVal(Undefined, Undefined, Undefined)

\* The `result` member of a list response: total, limit (a set: {} is undefined)
\* and the length of items / token_accounts.
\* `tag` names the rest of the payload (which asset, which proof).
ResVal(tag, total, limit, n) ==
    [tag |-> tag, total |-> total, limit |-> limit, n |-> n]
NoRes == ResVal("", 0, {}, 0)

\* A decoded response body: its own value and, when it is an object, its members.
Body(v, jsonrpc, error, id, result) ==
    [v |-> v, jsonrpc |-> jsonrpc, error |-> error, id |-> id, result |-> result]

\* obj.jsonrpc, obj.error, obj.id: undefined on anything that is not an object
\* with that member (a string, a number, a boolean or an array from JSON.parse).
GetJsonrpc(obj) == IF TagOf(obj.v) = "object" THEN obj.jsonrpc ELSE Undefined
GetError(obj) == IF TagOf(obj.v) = "object" THEN obj.error ELSE NoErr
GetId(obj) == IF TagOf(obj.v) = "object" THEN obj.id ELSE Undefined
GetCode(e) == IF TagOf(e.v) = "object" THEN e.code ELSE Undefined
GetMessage(e) == IF TagOf(e.v) = "object" THEN e.message ELSE Undefined

\* A plausible slip: testing error.code for truthiness instead of its type.
isAuraErrorResponseTruthyCode(obj) ==
    /\ Truthy(obj.v)
    /\ GetJsonrpc(obj) = Str("2.0")
    /\ Truthy(GetError(obj).v)
    /\ Truthy(GetCode(GetError(obj)))
    /\ TypeOf(GetCode(GetError(obj))) = "number"
    /\ TypeOf(GetMessage(GetError(obj))) = "string"

\* AuraError.isAuraErrorResponse, as the truth value of the && chain.
isAuraErrorResponse(obj) ==
    /\ Truthy(obj.v)
    /\ GetJsonrpc(obj) = Str("2.0")
    /\ Truthy(GetError(obj).v)
    /\ TypeOf(GetCode(GetError(obj))) = "number"
    /\ TypeOf(GetMessage(GetError(obj))) = "string"

-----------------------------------------------------------------------------
(* The bodies the predicate is tried on: every combination of a body value,  *)
(* a jsonrpc member, an error member and, for an error object, a code and a  *)
(* message, each present, missing or mistyped.                               *)

ShapeBodyValues == {Obj, Null, Num(0), Str("2.0"), Arr}
ShapeJsonrpcs == {Str("2.0"), Str("1.0"), Num(2), Undefined}
ShapeCodes == {Num(-32000), Num(-9999), Num(0), NumHalf(1), Str("-32000"), Null, Undefined}
ShapeMessages == {Str("Rate limit exceeded"), Str(""), Num(5), Null, Undefined}
ShapeErrors ==
    {ErrVal(v, Undefined, Undefined) : v \in {Undefined, Null, Str("boom"), Num(7), Arr}}
        \cup {ErrVal(Obj, c, m) : c \in ShapeCodes, m \in ShapeMessages}
ShapeIds == {Num(1), Str("req-7"), Null}
ShapeBodies ==
    {Body(v, j, e, i, NoRes) :
        v \in ShapeBodyValues, j \in ShapeJsonrpcs, e \in ShapeErrors, i \in ShapeIds}

-----------------------------------------------------------------------------
(* Errors and Results.                                                       *)

\* An Error object: its class, its message (a text and, for the HTTP message
\* template, the status interpolated into it) and the members AuraError adds.
ErrRec(name, text, status, code, jsonrpc, id) ==
    [name |-> name, text |-> text, status |-> status,
     code |-> code, jsonrpc |-> jsonrpc, id |-> id]
NoError == ErrRec("none", "", 0, Undefined, Undefined, Undefined)
PlainError(text, status) == ErrRec("Error", text, status, Undefined, Undefined, Undefined)

\* ERROR_CODES and ERROR_MESSAGES: the known codes and the text the table
\* holds for each.
ERROR_CODES ==
    [INVALID_PUBKEY |-> -32000, RATE_LIMIT_EXCEEDED |-> -32001,
     INVALID_PARAMETER |-> -32602, METHOD_NOT_FOUND |-> -32601,
     INTERNAL_ERROR |-> -32603]
ERROR_MESSAGES ==
    (ERROR_CODES.INVALID_PUBKEY :> "Invalid public key provided")
        @@ (ERROR_CODES.RATE_LIMIT_EXCEEDED :> "Rate limit exceeded")
        @@ (ERROR_CODES.INVALID_PARAMETER :> "Invalid parameter provided")
        @@ (ERROR_CODES.METHOD_NOT_FOUND :> "Method not found")
        @@ (ERROR_CODES.INTERNAL_ERROR :> "Internal server error")

\* A constructor that takes its message from the table and gives up on a code
\* the table does not hold.
AuraErrorFromTable(response) ==
    LET code == GetCode(GetError(response))
        known == ~HasHalf(code) /\ NumberOf(code) \in DOMAIN ERROR_MESSAGES
    IN
    ErrRec("AuraError",
           IF known THEN ERROR_MESSAGES[NumberOf(code)] ELSE "Unknown error", 0,
           code, GetJsonrpc(response), GetId(response))

\* new AuraError(response)
AuraErrorOf(response) ==
    ErrRec("AuraError", StringOf(GetMessage(GetError(response))), 0,
           GetCode(GetError(response)), GetJsonrpc(response), GetId(response))

NoBody == Body(Undefined, Undefined, NoErr, Undefined, NoRes)

\* Result<T, E>
Success(data) == [success |-> TRUE, data |-> data, error |-> NoError]
Failure(error) == [success |-> FALSE, data |-> NoBody, error |-> error]
NoResult == [success |-> FALSE, data |-> NoBody, error |-> NoError]

\* function isError(result)
isError(result) == ~result.success

-----------------------------------------------------------------------------
(* The transport: what one fetch() and the response.json() after it can do.  *)

\* kind "reject": fetch rejected, with `thrown` (an Error when isErr, anything
\* else otherwise).  kind "response": fetch resolved with `status`; json() then
\* resolves with `body` when decodes, and rejects with `thrown` when not.
Outcome(kind, isErr, thrown, status, decodes, body) ==
    [kind |-> kind, isErr |-> isErr, thrown |-> thrown, status |-> status,
     decodes |-> decodes, body |-> body]
NoOutcome == Outcome("none", FALSE, NoError, 0, FALSE, NoBody)

\* Response.ok
ResponseOk(status) == status \in 200..299

\* A dispatcher that does not look at the status before decoding.
makeRequestIgnoringStatus(outcome) ==
    IF outcome.kind = "reject"
    THEN Failure(IF outcome.isErr THEN outcome.thrown
                 ELSE PlainError("Unknown error occurred", 0))
    ELSE IF ~outcome.decodes
    THEN Failure(outcome.thrown)
    ELSE IF isAuraErrorResponse(outcome.body)
    THEN Failure(AuraErrorOf(outcome.body))
    ELSE Success(outcome.body)

\* A dispatcher that decodes and classifies the body before it looks at the
\* status.
makeRequestBodyFirst(outcome) ==
    IF outcome.kind = "reject"
    THEN Failure(IF outcome.isErr THEN outcome.thrown
                 ELSE PlainError("Unknown error occurred", 0))
    ELSE IF outcome.decodes /\ isAuraErrorResponse(outcome.body)
    THEN Failure(AuraErrorOf(outcome.body))
    ELSE IF ~ResponseOk(outcome.status)
    THEN Failure(PlainError("HTTP error! status: ", outcome.status))
    ELSE IF ~outcome.decodes
    THEN Failure(outcome.thrown)
    ELSE Success(outcome.body)

\* Aura.makeRequest from the point where fetch settles: the Result it returns.
makeRequest(outcome) ==
    IF outcome.kind = "reject"
    THEN Failure(IF outcome.isErr THEN outcome.thrown
                 ELSE PlainError("Unknown error occurred", 0))
    ELSE IF ~ResponseOk(outcome.status)
    THEN Failure(PlainError("HTTP error! status: ", outcome.status))
    ELSE IF ~outcome.decodes
    THEN Failure(outcome.thrown)
    ELSE IF isAuraErrorResponse(outcome.body)
    THEN Failure(AuraErrorOf(outcome.body))
    ELSE Success(outcome.body)

\* The request parameters: an id (getAsset, getAssetProof), and for the list
\* endpoints limit and page, each a set ({} is undefined).
Params(id, limit, page) == [id |-> id, limit |-> limit, page |-> page]

\* The payload makeRequest builds and posts.
Payload(method, params) ==
    [jsonrpc |-> "2.0", id |-> 1, method |-> method, params |-> params]

-----------------------------------------------------------------------------
(* The cache backend.                                                        *)

\* An optional number (ttl?, limit?, page?): {} is undefined, {n} is n.
IsTruthyNum(x) == x # {} /\ x # {0}
NumOf(x) == CHOOSE n \in x : TRUE

\* A string held in the cache, by what JSON.parse makes of it: kind "json" is
\* the text JSON.stringify(of) wrote, "garbage" a text JSON.parse rejects,
\* "empty" the empty string; kind "null" is the null a missed get resolves with.
CachedStr(kind, of) == [kind |-> kind, of |-> of]
NullStr == CachedStr("null", NoBody)
GarbageStr == CachedStr("garbage", NoBody)
EmptyStr == CachedStr("empty", NoBody)

\* JSON.stringify(data), and JSON.parse(text): it throws unless ParseOk(text).
JSONStringify(data) == CachedStr("json", data)
ParseOk(text) == text.kind = "json"
JSONParse(text) == text.of

\* `if (cachedData)`
TruthyStr(text) == text.kind \notin {"null", "empty"}

\* One key per id: the prefix left out of the key.
CacheKeyWithoutPrefix(prefix, assetId) == <<"asset", assetId>>

\* `asset:${assetId}` and `proof:${assetId}`
CacheKey(prefix, assetId) == <<prefix, assetId>>

AssetIds == {"a", "b"}
Keys == {CacheKey(p, i) : p \in {"asset", "proof"}, i \in AssetIds}

\* Map<string, { value, expires }>: an absent key is an entry that is not present.
Entry(value, expires) == [present |-> TRUE, value |-> value, expires |-> expires]
NoEntry == [present |-> FALSE, value |-> NullStr, expires |-> 0]
EmptyCache == [k \in Keys |-> NoEntry]

\* MemoryCache.get at time t: the value it resolves with and the map it leaves.
MemoryCacheGet(map, key, t) ==
    LET item == map[key] IN
    IF ~item.present
    THEN [value |-> NullStr, map |-> map]
    ELSE IF item.expires # 0 /\ item.expires < t
    THEN [value |-> NullStr, map |-> [map EXCEPT ![key] = NoEntry]]
    ELSE [value |-> item.value, map |-> map]

\* A set that computes an expiry instant whether a ttl was passed or not.
MemoryCacheSetAlwaysExpiring(map, key, value, ttl, t) ==
    [map EXCEPT ![key] =
        Entry(value, t + (IF ttl = {} THEN 0 ELSE NumOf(ttl)) * 1000)]

\* MemoryCache.set at time t, ttl an optional number of seconds.
MemoryCacheSet(map, key, value, ttl, t) ==
    [map EXCEPT ![key] =
        Entry(value, IF IsTruthyNum(ttl) THEN t + NumOf(ttl) * 1000 ELSE 0)]

\* MemoryCache.delete
MemoryCacheDelete(map, key) == [map EXCEPT ![key] = NoEntry]

\* Whether a call on the configured provider may reject: MemoryCache never
\* does, a networked implementation of CacheProvider can at any call.
MayReject == IF provider = "remote" THEN BOOLEAN ELSE {FALSE}

-----------------------------------------------------------------------------
(* Invocations.  An async function runs to its first await when it is called *)
(* and resumes, one step per settled promise, afterwards; pc names the await *)
(* a call is suspended at.                                                   *)

MaxCalls == 1
Calls == 1..MaxCalls

Got(rejected, value) == [rejected |-> rejected, value |-> value]
SetCall(key, value, ttl) == [key |-> key, value |-> value, ttl |-> ttl]

IdleCall ==
    [op |-> "none", prefix |-> "", params |-> Params("", {}, {}), pc |-> "idle",
     got |-> Got(FALSE, NullStr), setRejected |-> FALSE, outcome |-> NoOutcome,
     result |-> NoResult,
     getAt |-> 0,        \* Date.now() when cacheProvider.get was called
     setAt |-> 0,        \* Date.now() when cacheProvider.set was called
     sent |-> <<>>,      \* the payloads posted, in order
     gets |-> <<>>,      \* the keys passed to cacheProvider.get
     sets |-> <<>>]      \* the arguments passed to cacheProvider.set

\* The bodies and transport outcomes the remote end is tried with.
AssetBody(tag) == Body(Obj, Str("2.0"), NoErr, Num(1), ResVal(tag, 0, {}, 0))
ErrorBody(code, message) ==
    Body(Obj, Str("2.0"), ErrVal(Obj, code, message), Num(1), NoRes)
NetworkError == PlainError("fetch failed", 0)
SyntaxError == ErrRec("SyntaxError", "Unexpected token", 0, Undefined, Undefined, Undefined)

DispatchBodies ==
    {AssetBody("v1"), Body(Null, Undefined, NoErr, Undefined, NoRes),
     ErrorBody(Num(-32000), Str("Invalid public key provided")),
     ErrorBody(Num(-9999), Str(""))}
Outcomes ==
    {Outcome("reject", TRUE, NetworkError, 0, FALSE, NoBody),
     Outcome("reject", FALSE, NoError, 0, FALSE, NoBody),
     Outcome("response", FALSE, SyntaxError, 200, FALSE, NoBody),
     Outcome("response", FALSE, NoError, 500, TRUE, AssetBody("v1")),
     Outcome("response", FALSE, NoError, 429, TRUE,
             ErrorBody(Num(-32001), Str("Rate limit exceeded")))}
      \cup {Outcome("response", FALSE, NoError, 200, TRUE, b) : b \in DispatchBodies}

\* makeRequest up to `await fetch(...)`: the payload is built and posted.
Post(call, method, params) ==
    [call EXCEPT !.pc = "awaitFetch", !.sent = Append(@, Payload(method, params))]

\* getAsset / getAssetProof up to their first await: the cache read when a
\* provider is configured, the dispatch otherwise.
CachedLookup(c, method, prefix, assetId) ==
    LET started == [IdleCall EXCEPT !.op = method, !.prefix = prefix,
                                    !.params = Params(assetId, {}, {})]
        cacheKey == CacheKey(prefix, assetId)
    IN
    /\ calls[c].pc = "idle"
    /\ IF provider # "none"
       THEN \E rejects \in MayReject :
              LET r == MemoryCacheGet(cache, cacheKey, now) IN
              /\ cache' = IF rejects THEN cache ELSE r.map
              /\ calls' = [calls EXCEPT ![c] =
                    [started EXCEPT !.pc = "awaitGet", !.gets = <<cacheKey>>,
                        !.getAt = now,
                        !.got = IF rejects THEN Got(TRUE, NullStr)
                                ELSE Got(FALSE, r.value)]]
       ELSE /\ calls' = [calls EXCEPT ![c] = Post(started, method, started.params)]
            /\ UNCHANGED cache
    /\ UNCHANGED <<shapeIn, shapeOut, shapeErr, provider, cacheTTL, direct, now, gens>>

getAsset(c, assetId) == CachedLookup(c, "getAsset", "asset", assetId)

getAssetProof(c, assetId) == CachedLookup(c, "getAssetProof", "proof", assetId)

\* A lookup that reads the cache and dispatches all the same.
ResumeGetRefetch(c) ==
    LET call == calls[c] IN
    /\ call.pc = "awaitGet"
    /\ calls' = [calls EXCEPT ![c] =
          IF call.got.rejected
          THEN [call EXCEPT !.pc = "threw"]
          ELSE Post(call, call.op, call.params)]
    /\ UNCHANGED <<shapeIn, shapeOut, shapeErr, provider, cacheTTL, direct, cache, now, gens>>

\* After `await this.cacheProvider.get(cacheKey)`: a rejection propagates out
\* of the call; a truthy value is parsed and returned (JSON.parse may throw);
\* anything else goes on to the dispatch.
ResumeGet(c) ==
    LET call == calls[c] IN
    /\ call.pc = "awaitGet"
    /\ calls' = [calls EXCEPT ![c] =
          IF call.got.rejected
          THEN [call EXCEPT !.pc = "threw"]
          ELSE IF TruthyStr(call.got.value)
          THEN IF ParseOk(call.got.value)
               THEN [call EXCEPT !.pc = "returned",
                                 !.result = Success(JSONParse(call.got.value))]
               ELSE [call EXCEPT !.pc = "threw"]
          ELSE Post(call, call.op, call.params)]
    /\ UNCHANGED <<shapeIn, shapeOut, shapeErr, provider, cacheTTL, direct, cache, now, gens>>

\* The list endpoints: each is `return this.makeRequest(method, params)`.
Dispatch(c, method, params) ==
    /\ calls[c].pc = "idle"
    /\ calls' = [calls EXCEPT ![c] =
          Post([IdleCall EXCEPT !.op = method, !.params = params], method, params)]
    /\ UNCHANGED <<shapeIn, shapeOut, shapeErr, provider, cacheTTL, direct, cache, now, gens>>

getAssetsByOwner(c, params) == Dispatch(c, "getAssetsByOwner", params)
searchAssets(c, params) == Dispatch(c, "searchAssets", params)
getAssetBatch(c, params) == Dispatch(c, "getAssetBatch", params)
getAssetProofBatch(c, params) == Dispatch(c, "getAssetProofBatch", params)
getAssetsByAuthority(c, params) == Dispatch(c, "getAssetsByAuthority", params)
getAssetsByCreator(c, params) == Dispatch(c, "getAssetsByCreator", params)
getAssetsByGroup(c, params) == Dispatch(c, "getAssetsByGroup", params)
getSignaturesForAsset(c, params) == Dispatch(c, "getSignaturesForAsset", params)
getTokenAccounts(c, params) == Dispatch(c, "getTokenAccounts", params)

\* A write-through that also stores what a failed dispatch returned.
WriteThroughAlways(call, result) == provider # "none"

\* A write-through without the presence check.
WriteThroughUnchecked(call, result) == result.success

\* `if (result.success && this.cacheProvider)`
WriteThrough(call, result) == result.success /\ provider # "none"

\* A write-through placed in the dispatcher: every successful Result is
\* stored, those of the list endpoints included.
ResumeFetchCachingAll(c, outcome) ==
    LET call == calls[c]
        result == makeRequest(outcome)
        cacheKey == CacheKey("asset", "a")
        ttl == {cacheTTL \div 1000}
        text == JSONStringify(result.data)
    IN
    /\ call.pc = "awaitFetch"
    /\ IF WriteThrough(call, result)
       THEN /\ cache' = MemoryCacheSet(cache, cacheKey, text, ttl, now)
            /\ calls' = [calls EXCEPT ![c] =
                  [call EXCEPT !.pc = "awaitSet", !.outcome = outcome,
                               !.result = result, !.setAt = now,
                               !.sets = Append(@, SetCall(cacheKey, text, ttl))]]
       ELSE /\ calls' = [calls EXCEPT ![c] =
                    [call EXCEPT !.pc = "returned", !.outcome = outcome,
                                 !.result = result]]
            /\ UNCHANGED cache
    /\ UNCHANGED <<shapeIn, shapeOut, shapeErr, provider, cacheTTL, direct, now, gens>>

\* After fetch settles: makeRequest returns its Result; getAsset and
\* getAssetProof then call cacheProvider.set and await it, the list endpoints
\* return the Result.
ResumeFetch(c, outcome) ==
    LET call == calls[c]
        result == makeRequest(outcome)
        cacheKey == CacheKey(call.prefix, call.params.id)
        ttl == {cacheTTL \div 1000}
        text == JSONStringify(result.data)
    IN
    /\ call.pc = "awaitFetch"
    /\ IF call.prefix # "" /\ WriteThrough(call, result)
       THEN \E rejects \in MayReject :
              /\ cache' = IF rejects THEN cache
                          ELSE MemoryCacheSet(cache, cacheKey, text, ttl, now)
              /\ calls' = [calls EXCEPT ![c] =
                    [call EXCEPT !.pc = "awaitSet", !.outcome = outcome,
                                 !.result = result, !.setRejected = rejects,
                                 !.setAt = now,
                                 !.sets = Append(@, SetCall(cacheKey, text, ttl))]]
       ELSE /\ calls' = [calls EXCEPT ![c] =
                    [call EXCEPT !.pc = "returned", !.outcome = outcome,
                                 !.result = result]]
            /\ UNCHANGED cache
    /\ UNCHANGED <<shapeIn, shapeOut, shapeErr, provider, cacheTTL, direct, now, gens>>

\* After `await this.cacheProvider.set(...)`: `return result`, unless the
\* promise rejected, which propagates out of the call.
ResumeSet(c) ==
    LET call == calls[c] IN
    /\ call.pc = "awaitSet"
    /\ calls' = [calls EXCEPT ![c] =
          [call EXCEPT !.pc = IF call.setRejected THEN "threw" ELSE "returned"]]
    /\ UNCHANGED <<shapeIn, shapeOut, shapeErr, provider, cacheTTL, direct, cache, now, gens>>

-----------------------------------------------------------------------------
(* The paginate* generators.  A generator object runs only inside next():    *)
(* from its start, or from the yield it is suspended at, to the next await;  *)
(* the settled dispatch then takes it to the yield.                          *)

\* One generator object is followed: each holds its own currentPage and params
\* and shares nothing with another.
Gens == {1}
MaxPage == 4

TotalBased ==
    {"paginateAssetsByOwner", "paginateSearchAssets", "paginateAssetsByAuthority",
     "paginateAssetsByCreator", "paginateAssetsByGroup"}
ShortPageBased == {"paginateSignaturesForAsset", "paginateTokenAccounts"}

\* The endpoint each generator awaits.
Endpoint(kind) ==
    CASE kind = "paginateAssetsByOwner" -> "getAssetsByOwner"
      [] kind = "paginateSearchAssets" -> "searchAssets"
      [] kind = "paginateAssetsByAuthority" -> "getAssetsByAuthority"
      [] kind = "paginateAssetsByCreator" -> "getAssetsByCreator"
      [] kind = "paginateAssetsByGroup" -> "getAssetsByGroup"
      [] kind = "paginateSignaturesForAsset" -> "getSignaturesForAsset"
      [] kind = "paginateTokenAccounts" -> "getTokenAccounts"
      [] OTHER -> "none"

IdleGen ==
    [kind |-> "none", params |-> Params("", {}, {}), pc |-> "idle",
     currentPage |-> 0, response |-> NoResult,
     sent |-> <<>>,       \* the payloads posted, in order
     yields |-> <<>>,     \* success and error of each Result yielded, in order
     pulls |-> 0,         \* calls of next()
     first |-> NoRes,     \* total and effective limit of the first page, and
     steady |-> TRUE]     \* whether every later page repeated them

\* The responses a list endpoint is tried with.
PageTotals == {0, 2, 250}
PageLimits == {{}, {0}, {1}, {100}}
PageCounts == {0, 37, 100}
PageBody(total, limit, n) ==
    Body(Obj, Str("2.0"), NoErr, Num(1), ResVal("page", total, limit, n))
PageOutcomes ==
    {Outcome("reject", TRUE, NetworkError, 0, FALSE, NoBody),
     Outcome("response", FALSE, NoError, 500, TRUE, PageBody(250, {100}, 100)),
     Outcome("response", FALSE, NoError, 200, TRUE,
             ErrorBody(Num(-32001), Str("Rate limit exceeded")))}
      \cup {Outcome("response", FALSE, NoError, 200, TRUE, PageBody(t, l, n)) :
                t \in PageTotals, l \in PageLimits, n \in PageCounts}

\* A paginate* that is an ordinary eager function: calling it posts the first
\* page at once.
PaginateEager(g, kind, params) ==
    /\ gens[g].pc = "idle"
    /\ gens' = [gens EXCEPT ![g] =
          [IdleGen EXCEPT !.kind = kind, !.params = params, !.pc = "awaitFetch",
              !.currentPage = 1,
              !.sent = <<Payload(Endpoint(kind), [params EXCEPT !.page = {1}])>>]]
    /\ UNCHANGED <<shapeIn, shapeOut, shapeErr, provider, cacheTTL, direct, cache, now, calls>>

\* Calling paginate*(params) makes the generator object; nothing runs yet.
Paginate(g, kind, params) ==
    /\ gens[g].pc = "idle"
    /\ gens' = [gens EXCEPT ![g] = [IdleGen EXCEPT !.kind = kind, !.params = params,
                                                   !.pc = "start"]]
    /\ UNCHANGED <<shapeIn, shapeOut, shapeErr, provider, cacheTTL, direct, cache, now, calls>>

paginateAssetsByOwner(g, params) == Paginate(g, "paginateAssetsByOwner", params)
paginateSearchAssets(g, params) == Paginate(g, "paginateSearchAssets", params)
paginateAssetsByAuthority(g, params) == Paginate(g, "paginateAssetsByAuthority", params)
paginateAssetsByCreator(g, params) == Paginate(g, "paginateAssetsByCreator", params)
paginateAssetsByGroup(g, params) == Paginate(g, "paginateAssetsByGroup", params)
paginateSignaturesForAsset(g, params) == Paginate(g, "paginateSignaturesForAsset", params)
paginateTokenAccounts(g, params) == Paginate(g, "paginateTokenAccounts", params)

\* Every generator starting at page 1, whatever the params say.
StartPageIgnoringParams(kind, params) == 1

\* `let currentPage = 1`, and in paginateTokenAccounts `params.page || 1`.
StartPage(kind, params) ==
    IF kind = "paginateTokenAccounts" /\ IsTruthyNum(params.page)
    THEN NumOf(params.page)
    ELSE 1

\* The operands the other way round: the echoed limit first.
EffectiveLimitEchoFirst(params, response) ==
    IF IsTruthyNum(response.data.result.limit) THEN response.data.result.limit
    ELSE params.limit

\* `params.limit || response.data.result.limit`
EffectiveLimit(params, response) ==
    IF IsTruthyNum(params.limit) THEN params.limit ELSE response.data.result.limit

\* `currentPage * limit >= total`: false when limit is undefined (NaN).
TotalReached(currentPage, limit, total) ==
    limit # {} /\ currentPage * NumOf(limit) >= total

\* A loop that goes on until a page comes back empty.
ShortPageOnEmpty(n, limit) == limit # {} /\ n = 0

\* `items.length < limit`: false when limit is undefined.
ShortPage(n, limit) == limit # {} /\ n < NumOf(limit)

\* A loop that keeps going after a failed page.
BreaksIgnoringFailure(kind, currentPage, params, response) ==
    LET limit == EffectiveLimit(params, response) IN
    /\ response.success
    /\ IF kind \in TotalBased
       THEN TotalReached(currentPage, limit, response.data.result.total)
       ELSE ShortPage(response.data.result.n, limit)

\* A total-based loop that compares with > instead of >=.
BreaksOffByOne(kind, currentPage, params, response) ==
    LET limit == EffectiveLimit(params, response) IN
    \/ ~response.success
    \/ IF kind \in TotalBased
       THEN limit # {} /\ currentPage * NumOf(limit) > response.data.result.total
       ELSE ShortPage(response.data.result.n, limit)

\* A short-page loop that compares with <= instead of <.
BreaksOnFullPage(kind, currentPage, params, response) ==
    LET limit == EffectiveLimit(params, response) IN
    \/ ~response.success
    \/ IF kind \in TotalBased
       THEN TotalReached(currentPage, limit, response.data.result.total)
       ELSE limit # {} /\ response.data.result.n <= NumOf(limit)

\* The code after `yield response`: whether the loop breaks.
Breaks(kind, currentPage, params, response) ==
    LET limit == EffectiveLimit(params, response) IN
    \/ ~response.success
    \/ IF kind \in TotalBased
       THEN TotalReached(currentPage, limit, response.data.result.total)
       ELSE ShortPage(response.data.result.n, limit)

\* A dispatch that writes the page into the caller's params object instead of
\* copying it.
PostPageMutating(gen, page) ==
    [gen EXCEPT !.pc = "awaitFetch", !.currentPage = page,
        !.params = [@ EXCEPT !.page = {page}],
        !.sent = Append(@, Payload(Endpoint(gen.kind), [gen.params EXCEPT !.page = {page}]))]

\* The dispatch of one page: `{ ...params, page: currentPage }` is posted.
PostPage(gen, page) ==
    [gen EXCEPT !.pc = "awaitFetch", !.currentPage = page,
        !.sent = Append(@, Payload(Endpoint(gen.kind), [gen.params EXCEPT !.page = {page}]))]

\* Generators that keep the page counter in a field of the Aura object: every
\* generator reads and writes the same counter.
PullSharedCounter(g) ==
    LET gen == gens[g]
        pulled == [gen EXCEPT !.pulls = @ + 1]
        share(page) == [h \in DOMAIN gens |->
                           IF h = g THEN PostPage(pulled, page)
                           ELSE [gens[h] EXCEPT !.currentPage = page]]
    IN
    /\ gen.pc \in {"start", "yielded"}
    /\ IF gen.pc = "start"
       THEN gens' = share(StartPage(gen.kind, gen.params))
       ELSE IF Breaks(gen.kind, gen.currentPage, gen.params, gen.response)
       THEN gens' = [gens EXCEPT ![g] = [pulled EXCEPT !.pc = "done"]]
       ELSE /\ gen.currentPage < MaxPage
            /\ gens' = share(gen.currentPage + 1)
    /\ UNCHANGED <<shapeIn, shapeOut, shapeErr, provider, cacheTTL, direct, cache, now, calls>>

\* next(): from the start to the first dispatch; from a yield through the
\* break tests to the end of the generator or to the next page's dispatch.
Pull(g) ==
    LET gen == gens[g]
        pulled == [gen EXCEPT !.pulls = @ + 1]
    IN
    /\ gen.pc \in {"start", "yielded"}
    /\ IF gen.pc = "start"
       THEN gens' = [gens EXCEPT ![g] = PostPage(pulled, StartPage(gen.kind, gen.params))]
       ELSE IF Breaks(gen.kind, gen.currentPage, gen.params, gen.response)
       THEN gens' = [gens EXCEPT ![g] = [pulled EXCEPT !.pc = "done"]]
       ELSE /\ gen.currentPage < MaxPage
            /\ gens' = [gens EXCEPT ![g] = PostPage(pulled, gen.currentPage + 1)]
    /\ UNCHANGED <<shapeIn, shapeOut, shapeErr, provider, cacheTTL, direct, cache, now, calls>>

\* The page's total and the effective limit the loop will use for it.
Seen(params, response) ==
    ResVal("page", response.data.result.total, EffectiveLimit(params, response), 0)

\* The awaited endpoint settles: its Result is yielded.
Respond(g, outcome) ==
    LET gen == gens[g]
        response == makeRequest(outcome)
        seen == Seen(gen.params, response)
    IN
    /\ gen.pc = "awaitFetch"
    /\ gens' = [gens EXCEPT ![g] =
          [gen EXCEPT !.pc = "yielded", !.response = response,
              !.yields = Append(@, [success |-> response.success,
                                    error |-> response.error]),
              !.first = IF response.success /\ gen.yields = <<>> THEN seen ELSE @,
              !.steady = IF response.success /\ gen.yields # <<>>
                         THEN @ /\ seen = gen.first ELSE @]]
    /\ UNCHANGED <<shapeIn, shapeOut, shapeErr, provider, cacheTTL, direct, cache, now, calls>>

\* `options?.cacheTTL ?? 60000`
DefaultCacheTTL == 60000

-----------------------------------------------------------------------------
(* The predicate on its own.                                                 *)

\* AuraError.isAuraErrorResponse(obj) is called and answers.
Classify ==
    /\ shapeOut = "none"
    /\ shapeOut' = IF isAuraErrorResponse(shapeIn) THEN "true" ELSE "false"
    /\ UNCHANGED <<shapeIn, shapeErr, provider, cacheTTL, direct, cache, now, calls, gens>>

\* new AuraError(shapeIn), which the code does only for a body the predicate
\* answered true for.
Construct ==
    /\ shapeOut = "true"
    /\ shapeErr = NoError
    /\ shapeErr' = AuraErrorOf(shapeIn)
    /\ UNCHANGED <<shapeIn, shapeOut, provider, cacheTTL, direct, cache, now, calls, gens>>

\* No Aura object takes part: no calls, no generators, no cache.
ShapeInit ==
    /\ shapeIn \in ShapeBodies
    /\ shapeOut = "none"
    /\ shapeErr = NoError
    /\ provider = "none"
    /\ cacheTTL = DefaultCacheTTL
    /\ cache = <<>>
    /\ now = 0
    /\ direct = <<>>
    /\ calls = <<>>
    /\ gens = <<>>

ShapeNext == Classify \/ Construct

ShapeSpec == ShapeInit /\ [][ShapeNext]_vars

-----------------------------------------------------------------------------
(* The generators on their own.                                              *)

PageParams == {Params("owner", l, p) : l \in PageLimits, p \in {{}, {2}}}

\* An Aura object without a cache provider; only its generators are used.
PageInit ==
    /\ shapeIn = <<>>
    /\ shapeOut = "none"
    /\ shapeErr = <<>>
    /\ provider = "none"
    /\ cacheTTL = DefaultCacheTTL
    /\ cache = <<>>
    /\ now = 0
    /\ direct = <<>>
    /\ calls = <<>>
    /\ gens = [g \in Gens |-> IdleGen]

PageNext ==
    \/ \E g \in Gens, params \in PageParams : paginateAssetsByOwner(g, params)
    \/ \E g \in Gens, params \in PageParams : paginateSearchAssets(g, params)
    \/ \E g \in Gens, params \in PageParams : paginateAssetsByAuthority(g, params)
    \/ \E g \in Gens, params \in PageParams : paginateAssetsByCreator(g, params)
    \/ \E g \in Gens, params \in PageParams : paginateAssetsByGroup(g, params)
    \/ \E g \in Gens, params \in PageParams : paginateSignaturesForAsset(g, params)
    \/ \E g \in Gens, params \in PageParams : paginateTokenAccounts(g, params)
    \/ \E g \in Gens : Pull(g)
    \/ \E g \in Gens, outcome \in PageOutcomes : Respond(g, outcome)

PageSpec == PageInit /\ [][PageNext]_vars

-----------------------------------------------------------------------------
(* paginateAssetsByOwner against a server that holds a fixed collection: it  *)
(* answers every request with the collection's total, the limit it applies   *)
(* (the caller's or its own) and the block of that size the page number      *)
(* names.                                                                    *)

ServerTotals == {0, 1, 2, 3, 4}
ServerLimits == {1, 2}
FetchParams == {Params("owner", l, {}) : l \in {{}, {1}, {2}, {5}}}

\* The number of items in block `page` of a collection of `total` items cut
\* into blocks of `limit`.
BlockSize(total, limit, page) ==
    LET before == (page - 1) * limit IN
    IF total <= before THEN 0
    ELSE IF total - before < limit THEN total - before ELSE limit

\* getAssetsByOwner settles with the server's answer for the page requested:
\* the same total and limit as on the pages before.
ServeBlock(g, total, limit) ==
    LET gen == gens[g]
        body == PageBody(total, {limit}, BlockSize(total, limit, gen.currentPage))
    IN
    /\ gen.pc = "awaitFetch"
    /\ gen.yields # <<>> =>
          /\ gen.response.data.result.total = total
          /\ gen.response.data.result.limit = {limit}
    /\ Respond(g, Outcome("response", FALSE, NoError, 200, TRUE, body))

FetchAllNext ==
    \/ \E g \in Gens, params \in FetchParams : paginateAssetsByOwner(g, params)
    \/ \E g \in Gens : Pull(g)
    \/ \E g \in Gens, total \in ServerTotals, limit \in ServerLimits :
          ServeBlock(g, total, limit)

FetchAllSpec == PageInit /\ [][FetchAllNext]_vars

-----------------------------------------------------------------------------
(* The short-page generators against a server that holds a fixed collection  *)
(* and honours the limit: it cuts the collection into blocks of the caller's *)
(* limit when one is given and of its own limit otherwise, and echoes it.    *)

ShortTotals == {0, 1, 2, 3}
ShortParams == {Params("owner", l, p) : l \in {{}, {1}, {2}}, p \in {{}, {2}}}

\* getSignaturesForAsset / getTokenAccounts settle with the block the page
\* number names, cut with the limit the generator works with.
ServeHonoured(g, total, limit) ==
    /\ IsTruthyNum(gens[g].params.limit) => NumOf(gens[g].params.limit) = limit
    /\ ServeBlock(g, total, limit)

ShortPageNext ==
    \/ \E g \in Gens, params \in ShortParams : paginateSignaturesForAsset(g, params)
    \/ \E g \in Gens, params \in ShortParams : paginateTokenAccounts(g, params)
    \/ \E g \in Gens : Pull(g)
    \/ \E g \in Gens, total \in ShortTotals, limit \in ServerLimits :
          ServeHonoured(g, total, limit)

ShortPageSpec == PageInit /\ [][ShortPageNext]_vars

-----------------------------------------------------------------------------
(* The Aura object: the promise-returning operations over one cache backend. *)

\* new Aura(apiKey, baseUrl, options): cacheTTL defaults to DefaultCacheTTL; the
\* provider handed in may already hold entries, written by this SDK or not
\* (one of them set to expire at 1000), and the calls are made at time 0 or
\* at time 1500.
InitialCaches ==
    {EmptyCache,
     [EmptyCache EXCEPT ![CacheKey("asset", "a")] = Entry(JSONStringify(AssetBody("v0")), 1000)],
     [EmptyCache EXCEPT ![CacheKey("proof", "b")] = Entry(JSONStringify(AssetBody("v0")), 0)],
     [EmptyCache EXCEPT ![CacheKey("asset", "a")] = Entry(GarbageStr, 0)],
     [EmptyCache EXCEPT ![CacheKey("proof", "a")] = Entry(EmptyStr, 0)]}

ListParams == {Params("owner", {100}, {1})}

Init ==
    /\ shapeIn = <<>>
    /\ shapeOut = "none"
    /\ shapeErr = <<>>
    /\ provider \in {"none", "memory", "remote"}
    /\ cacheTTL \in {DefaultCacheTTL, 1500}
    /\ cache \in IF provider = "none" THEN {EmptyCache} ELSE InitialCaches
    /\ now \in {0, 1500}
    /\ direct = <<>>
    /\ calls = [c \in Calls |-> IdleCall]
    /\ gens = <<>>

Next ==
    \/ \E c \in Calls, assetId \in AssetIds : getAsset(c, assetId)
    \/ \E c \in Calls, assetId \in AssetIds : getAssetProof(c, assetId)
    \/ \E c \in Calls, params \in ListParams : getAssetsByOwner(c, params)
    \/ \E c \in Calls, params \in ListParams : searchAssets(c, params)
    \/ \E c \in Calls, params \in ListParams : getAssetBatch(c, params)
    \/ \E c \in Calls, params \in ListParams : getAssetProofBatch(c, params)
    \/ \E c \in Calls, params \in ListParams : getAssetsByAuthority(c, params)
    \/ \E c \in Calls, params \in ListParams : getAssetsByCreator(c, params)
    \/ \E c \in Calls, params \in ListParams : getAssetsByGroup(c, params)
    \/ \E c \in Calls, params \in ListParams : getSignaturesForAsset(c, params)
    \/ \E c \in Calls, params \in ListParams : getTokenAccounts(c, params)
    \/ \E c \in Calls : ResumeGet(c)
    \/ \E c \in Calls, outcome \in Outcomes : ResumeFetch(c, outcome)
    \/ \E c \in Calls : ResumeSet(c)

Spec == Init /\ [][Next]_vars

-----------------------------------------------------------------------------
(* A MemoryCache on its own, called directly, while time passes.             *)

\* The instants Date.now() is read at.
Instants == {0, 500, 1000, 1500}

\* Time passes between two calls.
Tick ==
    /\ \E t \in Instants : t > now /\ now' = t
    /\ UNCHANGED <<shapeIn, shapeOut, shapeErr, provider, cacheTTL, cache, direct, calls, gens>>

DirectKeys == {CacheKey("asset", "a"), CacheKey("asset", "b")}
DirectValues == {JSONStringify(AssetBody("v1")), JSONStringify(AssetBody("v2"))}
DirectTtls == {{}, {0}, {1}}

\* The latest set or delete made on a key, and the latest get: the key, the
\* value it resolved with, when, the latest set or delete on that key at that
\* moment, and whether the key was absent from the map afterwards.
LastOp(op, value, ttl, at) == [op |-> op, value |-> value, ttl |-> ttl, at |-> at]
NoLastOp == LastOp("none", NullStr, {}, 0)
GotOp(called, key, value, at, basis, purged) ==
    [called |-> called, key |-> key, value |-> value, at |-> at, basis |-> basis,
     purged |-> purged]
NoGot == GotOp(FALSE, CacheKey("", ""), NullStr, 0, NoLastOp, FALSE)

\* await cache.set(key, value, ttl)
DirectSet(key, value, ttl) ==
    /\ cache' = MemoryCacheSet(cache, key, value, ttl, now)
    /\ direct' = [direct EXCEPT !.last[key] = LastOp("set", value, ttl, now)]
    /\ UNCHANGED <<shapeIn, shapeOut, shapeErr, provider, cacheTTL, now, calls, gens>>

\* await cache.get(key)
DirectGet(key) ==
    LET r == MemoryCacheGet(cache, key, now) IN
    /\ cache' = r.map
    /\ direct' = [direct EXCEPT !.got =
          GotOp(TRUE, key, r.value, now, direct.last[key], ~r.map[key].present)]
    /\ UNCHANGED <<shapeIn, shapeOut, shapeErr, provider, cacheTTL, now, calls, gens>>

\* await cache.delete(key)
DirectDelete(key) ==
    /\ cache' = MemoryCacheDelete(cache, key)
    /\ direct' = [direct EXCEPT !.last[key] = LastOp("delete", NullStr, {}, now)]
    /\ UNCHANGED <<shapeIn, shapeOut, shapeErr, provider, cacheTTL, now, calls, gens>>

\* new MemoryCache(): an empty map.
CacheInit ==
    /\ shapeIn = <<>>
    /\ shapeOut = "none"
    /\ shapeErr = <<>>
    /\ provider = "memory"
    /\ cacheTTL = DefaultCacheTTL
    /\ cache = [k \in DirectKeys |-> NoEntry]
    /\ now = 0
    /\ direct = [last |-> [k \in DirectKeys |-> NoLastOp], got |-> NoGot]
    /\ calls = <<>>
    /\ gens = <<>>

CacheNext ==
    \/ \E key \in DirectKeys, value \in DirectValues, ttl \in DirectTtls :
          DirectSet(key, value, ttl)
    \/ \E key \in DirectKeys : DirectGet(key)
    \/ \E key \in DirectKeys : DirectDelete(key)
    \/ Tick

CacheSpec == CacheInit /\ [][CacheNext]_vars

-----------------------------------------------------------------------------
(* An Aura object over the default MemoryCache while time passes: a lookup   *)
(* that writes an entry and a lookup made at the same or a later instant.    *)

ExpiryCalls == {1, 2}
ExpiryTTLs == {500, 1000, 1500}
ExpiryOutcomes ==
    {Outcome("response", FALSE, NoError, 200, TRUE, AssetBody("v1")),
     Outcome("reject", TRUE, NetworkError, 0, FALSE, NoBody)}

\* new Aura(apiKey, baseUrl, { cacheProvider: new MemoryCache(), cacheTTL })
ExpiryInit ==
    /\ shapeIn = <<>>
    /\ shapeOut = "none"
    /\ shapeErr = <<>>
    /\ provider = "memory"
    /\ cacheTTL \in ExpiryTTLs
    /\ cache = EmptyCache
    /\ now = 0
    /\ direct = <<>>
    /\ calls = [c \in ExpiryCalls |-> IdleCall]
    /\ gens = <<>>

ExpiryNext ==
    \/ \E c \in ExpiryCalls, assetId \in AssetIds : getAsset(c, assetId)
    \/ \E c \in ExpiryCalls, assetId \in AssetIds : getAssetProof(c, assetId)
    \/ \E c \in ExpiryCalls : ResumeGet(c)
    \/ \E c \in ExpiryCalls, outcome \in ExpiryOutcomes : ResumeFetch(c, outcome)
    \/ \E c \in ExpiryCalls : ResumeSet(c)
    \/ Tick

ExpirySpec == ExpiryInit /\ [][ExpiryNext]_vars

-----------------------------------------------------------------------------
(* The list endpoints and the generators of an Aura object that has a cache  *)
(* provider holding entries.                                                 *)

ListCalls == {1}
ListOutcomes ==
    {Outcome("response", FALSE, NoError, 200, TRUE, PageBody(250, {100}, 100)),
     Outcome("response", FALSE, NoError, 200, TRUE, PageBody(250, {100}, 37)),
     Outcome("reject", TRUE, NetworkError, 0, FALSE, NoBody)}

ListInit ==
    /\ shapeIn = <<>>
    /\ shapeOut = "none"
    /\ shapeErr = <<>>
    /\ provider \in {"memory", "remote"}
    /\ cacheTTL = DefaultCacheTTL
    /\ cache \in InitialCaches
    /\ now \in {0, 1500}
    /\ direct = <<>>
    /\ calls = [c \in ListCalls |-> IdleCall]
    /\ gens = [g \in Gens |-> IdleGen]

ListNext ==
    \/ \E c \in ListCalls, params \in ListParams : getAssetsByOwner(c, params)
    \/ \E c \in ListCalls, params \in ListParams : searchAssets(c, params)
    \/ \E c \in ListCalls, params \in ListParams : getAssetBatch(c, params)
    \/ \E c \in ListCalls, params \in ListParams : getAssetProofBatch(c, params)
    \/ \E c \in ListCalls, params \in ListParams : getAssetsByAuthority(c, params)
    \/ \E c \in ListCalls, params \in ListParams : getAssetsByCreator(c, params)
    \/ \E c \in ListCalls, params \in ListParams : getAssetsByGroup(c, params)
    \/ \E c \in ListCalls, params \in ListParams : getSignaturesForAsset(c, params)
    \/ \E c \in ListCalls, params \in ListParams : getTokenAccounts(c, params)
    \/ \E c \in ListCalls, outcome \in ListOutcomes : ResumeFetch(c, outcome)
    \/ \E g \in Gens, params \in ListParams : paginateAssetsByOwner(g, params)
    \/ \E g \in Gens, params \in ListParams : paginateSearchAssets(g, params)
    \/ \E g \in Gens, params \in ListParams : paginateAssetsByAuthority(g, params)
    \/ \E g \in Gens, params \in ListParams : paginateAssetsByCreator(g, params)
    \/ \E g \in Gens, params \in ListParams : paginateAssetsByGroup(g, params)
    \/ \E g \in Gens, params \in ListParams : paginateSignaturesForAsset(g, params)
    \/ \E g \in Gens, params \in ListParams : paginateTokenAccounts(g, params)
    \/ \E g \in Gens : Pull(g)
    \/ \E g \in Gens, outcome \in ListOutcomes : Respond(g, outcome)

ListSpec == ListInit /\ [][ListNext]_vars

-----------------------------------------------------------------------------
(* An Aura object constructed without a cache provider: two lookups, of the  *)
(* same id or not, in flight together or one after the other.                *)

NoCacheCalls == {1, 2}

\* new Aura(apiKey, baseUrl) or new Aura(apiKey, baseUrl, { cacheTTL })
NoCacheInit ==
    /\ shapeIn = <<>>
    /\ shapeOut = "none"
    /\ shapeErr = <<>>
    /\ provider = "none"
    /\ cacheTTL \in {DefaultCacheTTL, 1500}
    /\ cache = EmptyCache
    /\ now = 0
    /\ direct = <<>>
    /\ calls = [c \in NoCacheCalls |-> IdleCall]
    /\ gens = <<>>

NoCacheNext ==
    \/ \E c \in NoCacheCalls, assetId \in AssetIds : getAsset(c, assetId)
    \/ \E c \in NoCacheCalls, assetId \in AssetIds : getAssetProof(c, assetId)
    \/ \E c \in NoCacheCalls, outcome \in Outcomes : ResumeFetch(c, outcome)

NoCacheSpec == NoCacheInit /\ [][NoCacheNext]_vars

-----------------------------------------------------------------------------
(* Everything an Aura object posts: two invocations of any endpoint, in      *)
(* flight together or not, and a generator beside them.                      *)

WireCalls == {1, 2}
WireIds == {"a"}
WireOutcomes ==
    {Outcome("response", FALSE, NoError, 200, TRUE, PageBody(250, {100}, 100)),
     Outcome("reject", TRUE, NetworkError, 0, FALSE, NoBody)}

\* new Aura(apiKey, baseUrl, options), with a MemoryCache or without.
WireInit ==
    /\ shapeIn = <<>>
    /\ shapeOut = "none"
    /\ shapeErr = <<>>
    /\ provider \in {"none", "memory"}
    /\ cacheTTL = DefaultCacheTTL
    /\ cache = EmptyCache
    /\ now = 0
    /\ direct = <<>>
    /\ calls = [c \in WireCalls |-> IdleCall]
    /\ gens = [g \in Gens |-> IdleGen]

WireNext ==
    \/ \E c \in WireCalls, assetId \in WireIds : getAsset(c, assetId)
    \/ \E c \in WireCalls, assetId \in WireIds : getAssetProof(c, assetId)
    \/ \E c \in WireCalls, params \in ListParams : getAssetsByOwner(c, params)
    \/ \E c \in WireCalls, params \in ListParams : searchAssets(c, params)
    \/ \E c \in WireCalls, params \in ListParams : getAssetBatch(c, params)
    \/ \E c \in WireCalls, params \in ListParams : getAssetProofBatch(c, params)
    \/ \E c \in WireCalls, params \in ListParams : getAssetsByAuthority(c, params)
    \/ \E c \in WireCalls, params \in ListParams : getAssetsByCreator(c, params)
    \/ \E c \in WireCalls, params \in ListParams : getAssetsByGroup(c, params)
    \/ \E c \in WireCalls, params \in ListParams : getSignaturesForAsset(c, params)
    \/ \E c \in WireCalls, params \in ListParams : getTokenAccounts(c, params)
    \/ \E c \in WireCalls : ResumeGet(c)
    \/ \E c \in WireCalls, outcome \in WireOutcomes : ResumeFetch(c, outcome)
    \/ \E c \in WireCalls : ResumeSet(c)
    \/ \E g \in Gens, params \in ListParams : paginateAssetsByOwner(g, params)
    \/ \E g \in Gens, params \in ListParams : paginateSearchAssets(g, params)
    \/ \E g \in Gens, params \in ListParams : paginateAssetsByAuthority(g, params)
    \/ \E g \in Gens, params \in ListParams : paginateAssetsByCreator(g, params)
    \/ \E g \in Gens, params \in ListParams : paginateAssetsByGroup(g, params)
    \/ \E g \in Gens, params \in ListParams : paginateSignaturesForAsset(g, params)
    \/ \E g \in Gens, params \in ListParams : paginateTokenAccounts(g, params)
    \/ \E g \in Gens : Pull(g)
    \/ \E g \in Gens, outcome \in WireOutcomes : Respond(g, outcome)

WireSpec == WireInit /\ [][WireNext]_vars

-----------------------------------------------------------------------------
(* Two generator objects of one Aura object, pulled in any order; the caller *)
(* may drop either, ended or not, and call a paginate* again.                *)

TwoGens == {1, 2}
TwoGenParams == {Params("owner", {100}, {}), Params("owner", {100}, {2})}

\* The caller lets go of a generator object and of what it remembers of it.
Abandon(g) ==
    /\ gens[g].pc \notin {"idle", "awaitFetch"}
    /\ gens' = [gens EXCEPT ![g] = IdleGen]
    /\ UNCHANGED <<shapeIn, shapeOut, shapeErr, provider, cacheTTL, direct, cache, now, calls>>

TwoGenInit ==
    /\ shapeIn = <<>>
    /\ shapeOut = "none"
    /\ shapeErr = <<>>
    /\ provider = "none"
    /\ cacheTTL = DefaultCacheTTL
    /\ cache = <<>>
    /\ now = 0
    /\ direct = <<>>
    /\ calls = <<>>
    /\ gens = [g \in TwoGens |-> IdleGen]

TwoGenNext ==
    \/ \E g \in TwoGens, params \in TwoGenParams : paginateAssetsByOwner(g, params)
    \/ \E g \in TwoGens, params \in TwoGenParams : paginateSearchAssets(g, params)
    \/ \E g \in TwoGens, params \in TwoGenParams : paginateAssetsByAuthority(g, params)
    \/ \E g \in TwoGens, params \in TwoGenParams : paginateAssetsByCreator(g, params)
    \/ \E g \in TwoGens, params \in TwoGenParams : paginateAssetsByGroup(g, params)
    \/ \E g \in TwoGens, params \in TwoGenParams : paginateSignaturesForAsset(g, params)
    \/ \E g \in TwoGens, params \in TwoGenParams : paginateTokenAccounts(g, params)
    \/ \E g \in TwoGens : Pull(g)
    \/ \E g \in TwoGens, outcome \in ListOutcomes : Respond(g, outcome)
    \/ \E g \in TwoGens : Abandon(g)

TwoGenSpec == TwoGenInit /\ [][TwoGenNext]_vars

-----------------------------------------------------------------------------
(* Two lookups in flight together over one cache backend, empty at first:    *)
(* same or different operation, same or different id; the server may answer  *)
(* each with a different body.                                               *)

SharedCalls == {1, 2}
SharedOutcomes ==
    {Outcome("response", FALSE, NoError, 200, TRUE, AssetBody("v1")),
     Outcome("response", FALSE, NoError, 200, TRUE, AssetBody("v2")),
     Outcome("reject", TRUE, NetworkError, 0, FALSE, NoBody)}

\* new Aura(apiKey, baseUrl, { cacheProvider })
SharedInit ==
    /\ shapeIn = <<>>
    /\ shapeOut = "none"
    /\ shapeErr = <<>>
    /\ provider \in {"memory", "remote"}
    /\ cacheTTL = DefaultCacheTTL
    /\ cache = EmptyCache
    /\ now = 0
    /\ direct = <<>>
    /\ calls = [c \in SharedCalls |-> IdleCall]
    /\ gens = <<>>

SharedNext ==
    \/ \E c \in SharedCalls, assetId \in AssetIds : getAsset(c, assetId)
    \/ \E c \in SharedCalls, assetId \in AssetIds : getAssetProof(c, assetId)
    \/ \E c \in SharedCalls : ResumeGet(c)
    \/ \E c \in SharedCalls, outcome \in SharedOutcomes : ResumeFetch(c, outcome)
    \/ \E c \in SharedCalls : ResumeSet(c)

SharedSpec == SharedInit /\ [][SharedNext]_vars

-----------------------------------------------------------------------------
(* Properties.                                                               *)

\* The calls whose dispatch has settled.
Dispatched(c) == calls[c].outcome.kind # "none"

\* C1: one invocation of the dispatcher posts exactly one payload (no call ever
\* posts a second one) and returns success, carrying the decoded body, exactly
\* when the transport answered with a success status, the body decoded and the
\* body is not an error envelope; it returns a failure in every other case.
C1_DispatchOnceAndClassify ==
    \A c \in Calls :
        /\ Len(calls[c].sent) <= 1
        /\ Dispatched(c) =>
            LET o == calls[c].outcome
                clean == /\ o.kind = "response"
                         /\ o.status >= 200 /\ o.status <= 299
                         /\ o.decodes
                         /\ ~isAuraErrorResponse(o.body)
            IN
            /\ Len(calls[c].sent) = 1
            /\ calls[c].result.success <=> clean
            /\ clean => calls[c].result = Success(o.body)
            /\ ~clean => calls[c].result.error # NoError

\* C1 witness: a list endpoint has returned the decoded body of a clean
\* response after posting once.
C1_Witness ==
    \E c \in Calls :
        /\ calls[c].op = "getAssetsByOwner"
        /\ calls[c].pc = "returned"
        /\ calls[c].result = Success(AssetBody("v1"))
        /\ Len(calls[c].sent) = 1

\* C2: no operation raises because of a non-success status, a network
\* exception, an undecodable body, an error envelope, or a cache read that
\* fails or yields a value that cannot be deserialized: a call that ends by
\* raising can only be one whose cache write was rejected.
C2_NeverRaises ==
    \A c \in Calls : calls[c].pc = "threw" => calls[c].setRejected

\* C3: when the dispatch succeeded and the cache write was rejected, the call
\* still ends by returning the success Result.
C3_SetFailureSwallowed ==
    \A c \in Calls :
        calls[c].setRejected /\ calls[c].pc # "awaitSet" =>
            calls[c].pc = "returned" /\ calls[c].result.success

\* The cache read of call c resolved with a value that counts as a hit.
Hit(call) ==
    /\ Len(call.gets) = 1
    /\ ~call.got.rejected
    /\ TruthyStr(call.got.value)
    /\ ParseOk(call.got.value)

\* C4 (state part): a call whose cache read hit posts nothing and sets nothing,
\* and once resumed it has returned success with the parsed cached value.
C4_HitState ==
    \A c \in Calls :
        Hit(calls[c]) =>
            /\ calls[c].sent = <<>>
            /\ calls[c].sets = <<>>
            /\ calls[c].pc \in {"awaitGet", "returned"}
            /\ calls[c].pc = "returned" =>
                   calls[c].result = Success(calls[c].got.value.of)

\* C4 (step part): the step in which a read hits resolves with the value stored
\* under prefix:id and leaves the whole map as it was, and so does the step
\* that returns the hit.
C4_HitStep ==
    \A c \in Calls :
        /\ calls[c].pc = "idle" /\ Hit(calls'[c]) =>
              /\ cache' = cache
              /\ calls'[c].gets[1] = <<calls'[c].prefix, calls'[c].params.id>>
              /\ cache[calls'[c].gets[1]].present
              /\ calls'[c].got.value = cache[calls'[c].gets[1]].value
        /\ calls[c].pc = "awaitGet" /\ Hit(calls[c]) /\ calls'[c] # calls[c] =>
              cache' = cache

\* C4: on a cache hit getAsset and getAssetProof return success with the
\* deserialized cached value, post nothing, set nothing and leave the entry
\* (value and expiry) unchanged.
C4_HitBypassesNetwork == [](C4_HitState) /\ [][C4_HitStep]_vars

\* C4 witness: getAssetProof returned the parsed value of an entry that is
\* still in the cache.
C4_Witness ==
    \E c \in Calls :
        /\ calls[c].op = "getAssetProof"
        /\ Hit(calls[c])
        /\ calls[c].pc = "returned"
        /\ calls[c].result = Success(AssetBody("v0"))
        /\ cache[CacheKey("proof", "b")] = Entry(JSONStringify(AssetBody("v0")), 0)

\* C5: with a provider configured, a getAsset / getAssetProof whose read missed
\* and whose dispatch succeeded has made exactly one set, under the key it
\* read and with the serialized body and floor(cacheTTL / 1000); one whose
\* dispatch failed has made none; and no entry of the cache is the
\* serialization of a failed dispatch's (absent) data.
C5_SetOnlyAfterSuccess ==
    /\ \A c \in Calls :
          Dispatched(c) /\ calls[c].prefix # "" /\ provider # "none" =>
              LET key == <<calls[c].prefix, calls[c].params.id>> IN
              /\ calls[c].gets = <<key>>
              /\ IF calls[c].result.success
                 THEN calls[c].sets =
                        <<SetCall(key, CachedStr("json", calls[c].outcome.body),
                                  {cacheTTL \div 1000})>>
                 ELSE calls[c].sets = <<>>
    /\ \A c \in Calls : Len(calls[c].sets) <= 1
    /\ \A k \in Keys : cache[k].present => cache[k].value # CachedStr("json", NoBody)

\* C5 witness: a missed getAsset dispatched, succeeded, wrote the entry and
\* returned.
C5_Witness ==
    \E c \in Calls :
        /\ calls[c].op = "getAsset"
        /\ calls[c].pc = "returned"
        /\ calls[c].result = Success(AssetBody("v1"))
        /\ Len(calls[c].sets) = 1
        /\ cache[CacheKey("asset", calls[c].params.id)].value = JSONStringify(AssetBody("v1"))

\* Every Result the generator has yielded so far was a success.
AllSucceeded(gen) == \A i \in 1..Len(gen.yields) : gen.yields[i].success

\* The pages the generator has requested, in order.
PagesOf(gen) == [i \in 1..Len(gen.sent) |-> gen.sent[i].params.page]

\* C6: a total-based generator whose dispatches all succeeded with one total T
\* and one effective limit L >= 1 requests pages 1, 2, ... in order, never a
\* page beyond max(1, ceil(T / L)), and has requested exactly that many when it
\* ends.
C6_TotalBasedPages ==
    \A g \in Gens :
        LET gen == gens[g] IN
        /\ gen.kind \in TotalBased
        /\ gen.yields # <<>>
        /\ AllSucceeded(gen)
        /\ gen.steady
        /\ gen.first.limit # {}
        /\ \A l \in gen.first.limit : l >= 1
        => LET T == gen.first.total
               L == CHOOSE l \in gen.first.limit : TRUE
               K == IF T = 0 THEN 1 ELSE (T + L - 1) \div L
               k == Len(gen.sent)
           IN
           /\ PagesOf(gen) = [i \in 1..k |-> {i}]
           /\ k <= K
           /\ Len(gen.yields) \in {k - 1, k}
           /\ gen.pc = "done" => k = K /\ Len(gen.yields) = K

\* C6 witness: total 250 with limit 100 ended after pages 1, 2, 3.
C6_Witness ==
    \E g \in Gens :
        /\ gens[g].kind = "paginateAssetsByAuthority"
        /\ gens[g].pc = "done"
        /\ AllSucceeded(gens[g])
        /\ gens[g].steady
        /\ gens[g].first.total = 250
        /\ gens[g].first.limit = {100}
        /\ PagesOf(gens[g]) = <<{1}, {2}, {3}>>
        /\ Len(gens[g].yields) = 3

\* The limit the claim calls effective: the caller's when one is supplied (and
\* not zero), the one the page echoes otherwise.
ClaimedLimit(gen) ==
    IF gen.params.limit \notin {{}, {0}} THEN gen.params.limit
    ELSE gen.response.data.result.limit

\* C7 (step): after a successful page of a short-page generator, the next pull
\* ends the sequence without a request when the page held fewer items than the
\* effective limit, and requests the following page when it held at least as
\* many; the page's total plays no part.
C7_Step ==
    \A g \in Gens :
        LET gen == gens[g]
            L == ClaimedLimit(gen)
        IN
        /\ gen.kind \in ShortPageBased
        /\ gen.pc = "yielded"
        /\ gen.response.success
        /\ L # {}
        /\ gens'[g] # gen
        => IF \A l \in L : gen.response.data.result.n < l
           THEN gens'[g].pc = "done" /\ gens'[g].sent = gen.sent
           ELSE /\ gens'[g].pc = "awaitFetch"
                /\ Len(gens'[g].sent) = Len(gen.sent) + 1
                /\ gens'[g].sent[Len(gen.sent) + 1].params.page = {gen.currentPage + 1}

\* C7: the short-page generators stop after the first successful page with
\* fewer items than the effective limit and go on after every fuller one.
C7_ShortPageStops == [][C7_Step]_vars

\* C7 witness: 37 items against a caller limit of 100 ended the sequence after
\* one page although the page reported a total of 250.
C7_Witness ==
    \E g \in Gens :
        /\ gens[g].kind = "paginateSignaturesForAsset"
        /\ gens[g].pc = "done"
        /\ gens[g].params.limit = {100}
        /\ gens[g].response.success
        /\ gens[g].response.data.result.n = 37
        /\ gens[g].response.data.result.total = 250
        /\ Len(gens[g].sent) = 1

\* C8: every dispatch's Result is yielded, failures included; a failure is the
\* last item yielded, the items before it are the successes of the pages
\* before it, and no request follows it.
C8_FailureEndsSequence ==
    \A g \in Gens :
        LET gen == gens[g]
            y == gen.yields
            k == Len(gen.sent)
        IN
        /\ Len(y) = IF gen.pc = "awaitFetch" THEN k - 1 ELSE k
        /\ \A i \in 1..(Len(y) - 1) : y[i].success
        /\ \A i \in 1..(k - 1) : gen.sent[i + 1].params.page = {NumOf(gen.sent[i].params.page) + 1}
        /\ gen.pc = "yielded" =>
              y[Len(y)] = [success |-> gen.response.success, error |-> gen.response.error]
        /\ y # <<>> /\ ~y[Len(y)].success =>
              /\ gen.pc \in {"yielded", "done"}
              /\ y[Len(y)].error # NoError

\* C8 witness: page 1 succeeded, page 2 failed, and the sequence ended with
\* two requests made.
C8_Witness ==
    \E g \in Gens :
        /\ gens[g].pc = "done"
        /\ Len(gens[g].yields) = 2
        /\ gens[g].yields[1].success
        /\ ~gens[g].yields[2].success
        /\ PagesOf(gens[g]) = <<{1}, {2}>>

\* C9: when the caller supplies no limit (or zero) and the first page echoes no
\* usable limit either, the sequence makes no request after that page.
C9_NoLimitEndsAfterOnePage ==
    \A g \in Gens :
        /\ gens[g].yields # <<>>
        /\ gens[g].yields[1].success
        /\ gens[g].first.limit \in {{}, {0}}
        => Len(gens[g].sent) <= 1

\* The error shape as the claim words it, with an integer code.
IsMapping(v) == TagOf(v) = "object"
ShapeWithIntegerCode(body) ==
    /\ IsMapping(body.v)
    /\ body.jsonrpc = Str("2.0")
    /\ IsMapping(body.error.v)
    /\ TagOf(body.error.code) = "number" /\ ~HasHalf(body.error.code)
    /\ TagOf(body.error.message) = "string"

\* The same with any number for a code.
ShapeWithNumberCode(body) ==
    /\ IsMapping(body.v)
    /\ body.jsonrpc = Str("2.0")
    /\ IsMapping(body.error.v)
    /\ TagOf(body.error.code) = "number"
    /\ TagOf(body.error.message) = "string"

C11_ErrorClasses ==
    \A c \in Calls :
        Dispatched(c) =>
            LET o == calls[c].outcome
                r == calls[c].result
                okStatus == o.kind = "response" /\ o.status >= 200 /\ o.status <= 299
                remote == okStatus /\ o.decodes /\ ShapeWithNumberCode(o.body)
            IN
            /\ r.error.name = "AuraError" <=> remote
            /\ remote => ~r.success
            /\ o.kind = "response" /\ ~okStatus =>
                  r = Failure(PlainError("HTTP error! status: ", o.status))
            /\ o.kind = "reject" \/ (okStatus /\ ~o.decodes) =>
                  /\ ~r.success
                  /\ r.error.name \in {"Error", "SyntaxError"}

\* C11 witness: a 429 answer whose body is a well-formed error envelope came
\* back as the plain Error recording 429.
C11_Witness ==
    \E c \in Calls :
        /\ calls[c].pc = "returned"
        /\ calls[c].outcome.status = 429
        /\ ShapeWithNumberCode(calls[c].outcome.body)
        /\ calls[c].result = Failure(PlainError("HTTP error! status: ", 429))

\* C12: the AuraError constructed from a body of the error shape holds the
\* body's error.code, error.message and id as they are, whether the code is in
\* the table of known codes or not and whatever the table says for it.
C12_ClassifyVerbatim ==
    shapeErr # NoError =>
        /\ ShapeWithNumberCode(shapeIn)
        /\ shapeErr.name = "AuraError"
        /\ shapeErr.code = shapeIn.error.code
        /\ Str(shapeErr.text) = shapeIn.error.message
        /\ shapeErr.id = shapeIn.id
        /\ shapeErr.jsonrpc = shapeIn.jsonrpc

\* C12 witness: code -9999, which the table does not hold, was constructed with
\* the body's own message and its string id.
C12_Witness ==
    /\ shapeErr # NoError
    /\ shapeErr.code = Num(-9999)
    /\ NumberOf(shapeErr.code) \notin DOMAIN ERROR_MESSAGES
    /\ shapeErr.text = "Rate limit exceeded"
    /\ shapeErr.id = Str("req-7")

\* C13: a get that follows a set made with a numeric ttl (and nothing later on
\* that key) resolves with the value set as long as no more than ttl seconds
\* have passed since the set, and once more have passed it resolves with null,
\* as for a key never set, and leaves the key out of the map.
C13_TtlRoundTrip ==
    LET g == direct.got
        b == g.basis
    IN
    g.called /\ b.op = "set" /\ b.ttl # {} =>
        IF g.at <= b.at + NumOf(b.ttl) * 1000
        THEN g.value = b.value /\ ~g.purged
        ELSE g.value = NullStr /\ g.purged

\* C18: a get that follows a set made without a ttl (and nothing later on that
\* key) resolves with the value set, however much later, and the entry stays.
C18_NoTtlNeverExpires ==
    LET g == direct.got
        b == g.basis
    IN
    g.called /\ b.op = "set" /\ b.ttl = {} =>
        g.value = b.value /\ ~g.purged

\* C18 witness: a value set at 500 without a ttl was read back at 1500.
C18_Witness ==
    /\ direct.got.called
    /\ direct.got.basis = LastOp("set", JSONStringify(AssetBody("v2")), {}, 500)
    /\ direct.got.at = 1500
    /\ direct.got.value = JSONStringify(AssetBody("v2"))

\* C14: a lookup that writes an entry passes floor(cacheTTL / 1000) seconds as
\* its ttl, and a lookup of the same key that reads the cache more than
\* cacheTTL milliseconds after that write is not served from the cache: it
\* posts a request.
C14_ExpiresAfterCacheTTL ==
    \A w \in DOMAIN calls, r \in DOMAIN calls :
        Len(calls[w].sets) = 1 =>
            /\ calls[w].sets[1].ttl = {cacheTTL \div 1000}
            /\ /\ calls[r].gets = <<calls[w].sets[1].key>>
               /\ calls[r].getAt > calls[w].setAt + cacheTTL
               => /\ ~Hit(calls[r])
                  /\ calls[r].pc # "awaitGet" => Len(calls[r].sent) = 1

\* C15: when paginateAssetsByOwner ends against the fixed collection, it has
\* requested pages 1..k in order and those k blocks of the server's limit
\* reach the end of the collection, so that the pages yielded hold every
\* asset, whatever limit the caller supplied.
C15_FetchesEveryAsset ==
    \A g \in Gens :
        LET gen == gens[g]
            k == Len(gen.sent)
        IN
        gen.kind = "paginateAssetsByOwner" /\ gen.pc = "done" =>
            /\ PagesOf(gen) = [i \in 1..k |-> {i}]
            /\ Len(gen.yields) = k
            /\ k * NumOf(gen.response.data.result.limit) >= gen.response.data.result.total

\* C16 (state part): a list endpoint that was invoked has read no key, set
\* nothing and posted exactly one payload, and it ends by returning; a
\* generator has posted one payload for every Result it yielded or awaits.
C16_ListState ==
    /\ \A c \in DOMAIN calls :
          calls[c].pc # "idle" /\ calls[c].prefix = "" =>
              /\ calls[c].gets = <<>>
              /\ calls[c].sets = <<>>
              /\ Len(calls[c].sent) = 1
              /\ calls[c].pc \in {"awaitFetch", "returned"}
    /\ \A g \in Gens :
          Len(gens[g].sent) =
              Len(gens[g].yields) + (IF gens[g].pc = "awaitFetch" THEN 1 ELSE 0)

\* C16: whatever the list endpoints and the generators do, with a cache
\* provider configured and entries in it, no entry of the cache is read,
\* added, replaced or removed, and every call posts its request.
C16_ListsBypassCache == [](C16_ListState) /\ [][cache' = cache]_vars

\* C16 witness: with entries in the cache, getAssetBatch has returned a page
\* and paginateAssetsByOwner has ended after three pages.
C16_Witness ==
    /\ provider = "memory"
    /\ cache[CacheKey("asset", "a")].present
    /\ \E c \in DOMAIN calls :
          /\ calls[c].op = "getAssetBatch"
          /\ calls[c].pc = "returned"
          /\ calls[c].result.success
    /\ \E g \in Gens :
          /\ gens[g].kind = "paginateAssetsByOwner"
          /\ gens[g].pc = "done"
          /\ Len(gens[g].yields) = 3

MethodOf ==
    [getAsset |-> "getAsset", getAssetProof |-> "getAssetProof",
     getAssetsByOwner |-> "getAssetsByOwner", searchAssets |-> "searchAssets",
     getAssetBatch |-> "getAssetBatch", getAssetProofBatch |-> "getAssetProofBatch",
     getAssetsByAuthority |-> "getAssetsByAuthority",
     getAssetsByCreator |-> "getAssetsByCreator",
     getAssetsByGroup |-> "getAssetsByGroup",
     getSignaturesForAsset |-> "getSignaturesForAsset",
     getTokenAccounts |-> "getTokenAccounts",
     paginateAssetsByOwner |-> "getAssetsByOwner",
     paginateSearchAssets |-> "searchAssets",
     paginateAssetsByAuthority |-> "getAssetsByAuthority",
     paginateAssetsByCreator |-> "getAssetsByCreator",
     paginateAssetsByGroup |-> "getAssetsByGroup",
     paginateSignaturesForAsset |-> "getSignaturesForAsset",
     paginateTokenAccounts |-> "getTokenAccounts"]

\* C19 (state part): every payload posted by a call is
\* {jsonrpc "2.0", id 1, the operation's method, the caller's params}, and the
\* i-th payload posted by a generator is the same with the caller's params and
\* the page of that step.
C19_Envelopes ==
    /\ \A c \in DOMAIN calls :
          \A i \in 1..Len(calls[c].sent) :
              calls[c].sent[i] =
                  [jsonrpc |-> "2.0", id |-> 1, method |-> MethodOf[calls[c].op],
                   params |-> calls[c].params]
    /\ \A g \in Gens :
          \A i \in 1..Len(gens[g].sent) :
              LET p == gens[g].sent[i] IN
              /\ p.jsonrpc = "2.0"
              /\ p.id = 1
              /\ p.method = MethodOf[gens[g].kind]
              /\ p.params.id = gens[g].params.id
              /\ p.params.limit = gens[g].params.limit
              /\ p.params.page = {gens[g].currentPage - (Len(gens[g].sent) - i)}

\* C19 (step part): a step posts at most one payload, after those already
\* posted, and leaves the params the caller passed as they were.
C19_Step ==
    /\ \A c \in DOMAIN calls :
          calls[c].pc # "idle" =>
              /\ calls'[c].params = calls[c].params
              /\ Len(calls'[c].sent) \in {Len(calls[c].sent), Len(calls[c].sent) + 1}
              /\ SubSeq(calls'[c].sent, 1, Len(calls[c].sent)) = calls[c].sent
    /\ \A g \in Gens :
          gens[g].pc # "idle" =>
              /\ gens'[g].params = gens[g].params
              /\ Len(gens'[g].sent) \in {Len(gens[g].sent), Len(gens[g].sent) + 1}
              /\ SubSeq(gens'[g].sent, 1, Len(gens[g].sent)) = gens[g].sent

\* C19: every request posted is an envelope built for it, with jsonrpc "2.0",
\* the id 1 for every call (two in flight together included), the method of
\* the operation and the caller's params (with the current page for a
\* generator's step), and the caller's params are never changed.
C19_FreshEnvelope == [](C19_Envelopes) /\ [][C19_Step]_vars

\* C19 witness: two lookups are in flight together, each having posted id 1,
\* while a generator has posted pages 1 and 2.
C19_Witness ==
    /\ \A c \in WireCalls :
          /\ calls[c].pc = "awaitFetch"
          /\ Len(calls[c].sent) = 1
          /\ calls[c].sent[1].id = 1
    /\ calls[1].op = "getAsset" /\ calls[2].op = "getTokenAccounts"
    /\ \E g \in Gens :
          /\ Len(gens[g].sent) = 2
          /\ gens[g].sent[1].id = 1 /\ gens[g].sent[2].id = 1
          /\ PagesOf(gens[g]) = <<{1}, {2}>>

\* C20: the pages a generator has requested are consecutive, each one more
\* than the one before, none skipped and none repeated; the first is the page
\* number in the caller's params for paginateTokenAccounts when there is one,
\* and 1 for it otherwise and for the six other generators always.
C20_ConsecutivePages ==
    \A g \in Gens :
        LET gen == gens[g]
            start == IF gen.kind = "paginateTokenAccounts" /\ gen.params.page # {}
                     THEN CHOOSE p \in gen.params.page : TRUE
                     ELSE 1
        IN
        /\ PagesOf(gen) = [i \in 1..Len(gen.sent) |-> {start + i - 1}]
        /\ gen.pc \in {"awaitFetch", "yielded"} =>
              gen.currentPage = start + Len(gen.sent) - 1

\* C20 witness: paginateTokenAccounts called with page 2 in its params has
\* requested pages 2 and 3.
C20_Witness ==
    \E g \in Gens :
        /\ gens[g].kind = "paginateTokenAccounts"
        /\ gens[g].params.page = {2}
        /\ PagesOf(gens[g]) = <<{2}, {3}>>

\* C21 (state part): a generator has posted no more requests than next() was
\* called on it, none before the first call, and at most one of its requests
\* is unanswered.
C21_LazyState ==
    \A g \in Gens :
        LET gen == gens[g] IN
        /\ Len(gen.sent) <= gen.pulls
        /\ gen.pc \in {"idle", "start"} => gen.sent = <<>>
        /\ Len(gen.sent) - Len(gen.yields) = IF gen.pc = "awaitFetch" THEN 1 ELSE 0

\* C21 (step part): a request is posted only in a step that is a call of
\* next(), one request at most, and never while another is unanswered; any
\* other step posts nothing.
C21_LazyStep ==
    \A g \in Gens :
        LET gen == gens[g] IN
        gen.pc # "idle" =>
            /\ gens'[g].pulls \in {gen.pulls, gen.pulls + 1}
            /\ gens'[g].pulls = gen.pulls => gens'[g].sent = gen.sent
            /\ Len(gens'[g].sent) <= Len(gen.sent) + 1
            /\ gens'[g].sent # gen.sent => gen.pc # "awaitFetch"

\* C21: the generators are lazy and sequential: a page is requested only by a
\* pull, one at a time, requests never outnumber pulls, and a generator that
\* is not pulled posts nothing more.
C21_LazySequential == [](C21_LazyState) /\ [][C21_LazyStep]_vars

\* C21 witness: a generator pulled once has yielded a full first page, would
\* go on if pulled again, and has posted one request.
C21_Witness ==
    \E g \in Gens :
        /\ gens[g].pc = "yielded"
        /\ gens[g].pulls = 1
        /\ Len(gens[g].sent) = 1
        /\ gens[g].response.success
        /\ ~Breaks(gens[g].kind, gens[g].currentPage, gens[g].params, gens[g].response)

\* C22 (step): the pull after a successful page ends the sequence exactly when
\* the test of the generator's policy (page * L >= total, or item count < L)
\* is true for L the caller's limit when the caller supplied one (not zero),
\* whatever limit the page echoes, and for L the limit that same page echoes
\* otherwise.
C22_Step ==
    \A g \in Gens :
        LET gen == gens[g]
            L == ClaimedLimit(gen)
            r == gen.response.data.result
            stop == IF gen.kind \in TotalBased
                    THEN \A l \in L : gen.currentPage * l >= r.total
                    ELSE \A l \in L : r.n < l
        IN
        /\ gen.pc = "yielded"
        /\ gen.response.success
        /\ L # {}
        /\ gens'[g] # gen
        => (gens'[g].pc = "done" <=> stop)

\* C22: the limit the continuation decision uses after a page is the caller's
\* whenever the caller supplied one, and the one echoed by that page otherwise.
C22_EffectiveLimit == [][C22_Step]_vars

\* C22 witness: with a caller limit of 1 and pages that echo 100 and a total of
\* 2, a total-based generator went on after page 1 and ended after page 2.
C22_Witness ==
    \E g \in Gens :
        /\ gens[g].kind \in TotalBased
        /\ gens[g].params.limit = {1}
        /\ gens[g].pc = "done"
        /\ Len(gens[g].yields) = 2
        /\ AllSucceeded(gens[g])
        /\ gens[g].response.data.result.limit = {100}
        /\ gens[g].response.data.result.total = 2

\* C23 (state part): whatever the other generator does, the requests of a
\* generator are its own endpoint's, carry its own caller's params, and name
\* the pages start, start + 1, ... counted from its own first page.
C23_OwnSeries ==
    \A g \in DOMAIN gens :
        LET gen == gens[g]
            start == IF gen.kind = "paginateTokenAccounts" /\ gen.params.page # {}
                     THEN CHOOSE p \in gen.params.page : TRUE
                     ELSE 1
        IN
        \A i \in 1..Len(gen.sent) :
            /\ gen.sent[i].method = MethodOf[gen.kind]
            /\ gen.sent[i].params.id = gen.params.id
            /\ gen.sent[i].params.limit = gen.params.limit
            /\ gen.sent[i].params.page = {start + i - 1}

\* C23 (step part): a step of one generator leaves the other as it was, and
\* what a pulled generator does next (end, or request the page after its own
\* current one) follows from its own params and its own last page alone.
C23_OwnStep ==
    \A g \in DOMAIN gens :
        gens'[g] # gens[g] =>
            /\ \A h \in DOMAIN gens : h # g => gens'[h] = gens[h]
            /\ gens[g].pc = "yielded" /\ gens'[g].pc # "idle" =>
                  IF Breaks(gens[g].kind, gens[g].currentPage, gens[g].params,
                            gens[g].response)
                  THEN gens'[g].pc = "done" /\ gens'[g].sent = gens[g].sent
                  ELSE /\ gens'[g].pc = "awaitFetch"
                       /\ gens'[g].currentPage = gens[g].currentPage + 1
            /\ gens[g].pc = "idle" =>
                  gens'[g].sent = <<>> /\ gens'[g].yields = <<>> /\ gens'[g].pulls = 0

\* C23: every call of a paginate* makes a sequence with its own page counter:
\* with two sequences pulled in any order, and with a sequence started in the
\* place of one that ended or was dropped, each requests the pages it would
\* request alone.
C23_IndependentSequences == [](C23_OwnSeries) /\ [][C23_OwnStep]_vars

\* C23 witness: two sequences of the same helper are under way together, one
\* having requested pages 1, 2, 3 and the other, started later, pages 1, 2.
C23_Witness ==
    /\ gens[1].kind = "paginateAssetsByGroup"
    /\ gens[2].kind = "paginateAssetsByGroup"
    /\ PagesOf(gens[1]) = <<{1}, {2}, {3}>>
    /\ PagesOf(gens[2]) = <<{1}, {2}>>
    /\ gens[1].pc = "yielded"
    /\ gens[2].pc = "awaitFetch"

\* C24 (state part): each lookup has posted at most one request and made at
\* most one set, and every entry of the cache, under asset:id or proof:id, is
\* the serialized body of a successful dispatch of a getAsset, respectively
\* getAssetProof, call for that id.
C24_SharedState ==
    /\ \A c \in DOMAIN calls :
          Len(calls[c].sent) <= 1 /\ Len(calls[c].sets) <= 1
    /\ \A k \in DOMAIN cache :
          cache[k].present =>
              \E c \in DOMAIN calls :
                  /\ calls[c].op = (IF k[1] = "asset" THEN "getAsset" ELSE "getAssetProof")
                  /\ calls[c].params.id = k[2]
                  /\ calls[c].outcome.kind = "response"
                  /\ calls[c].result.success
                  /\ cache[k].value = CachedStr("json", calls[c].outcome.body)

\* C24 (step part): a set that is carried out leaves its value under its key,
\* whatever was there (the last set wins), and touches no other key.
C24_SharedStep ==
    \A c \in DOMAIN calls :
        Len(calls'[c].sets) > Len(calls[c].sets) /\ ~calls'[c].setRejected =>
            LET done == calls'[c].sets[Len(calls'[c].sets)] IN
            /\ cache'[done.key].present
            /\ cache'[done.key].value = done.value
            /\ \A k \in DOMAIN cache : k # done.key => cache'[k] = cache[k]

\* C24: lookups in flight together over one cache backend each post at most
\* once and set at most once, every value stored under a key comes from a
\* successful response to the same operation and id, and of two writes to one
\* key the later one stays.
C24_ConcurrentLookups == [](C24_SharedState) /\ [][C24_SharedStep]_vars

\* C24 witness: two getAsset("a") calls both missed, both dispatched and both
\* set; the first returned v1, the second v2, and the cache holds v2.
C24_Witness ==
    /\ \A c \in SharedCalls :
          /\ calls[c].op = "getAsset"
          /\ calls[c].params.id = "a"
          /\ calls[c].pc = "returned"
          /\ Len(calls[c].sent) = 1
          /\ Len(calls[c].sets) = 1
    /\ calls[1].result = Success(AssetBody("v1"))
    /\ calls[2].result = Success(AssetBody("v2"))
    /\ cache[<<"asset", "a">>].value = CachedStr("json", AssetBody("v2"))

\* The collection size N and the limit L of the sequence a generator is in,
\* read off its last page, and the dispatches a walk from page `start` takes:
\* pages start .. N \div L + 1, and one page when start lies beyond them.
C25_N(g) == gens[g].response.data.result.total
C25_L(g) == NumOf(EffectiveLimit(gens[g].params, gens[g].response))
C25_FromStart(g, start) ==
    IF start > C25_N(g) \div C25_L(g) + 1 THEN 1
    ELSE C25_N(g) \div C25_L(g) + 2 - start

\* C25 as stated: a short-page sequence over N items in pages of L ends after
\* exactly N \div L + 1 dispatches, whatever page it started at, and its last
\* page is empty when L divides N.
C25_DispatchCountFromOne ==
    \A g \in DOMAIN gens :
        gens[g].pc = "done" =>
            /\ Len(gens[g].sent) = C25_N(g) \div C25_L(g) + 1
            /\ C25_N(g) % C25_L(g) = 0 => gens[g].response.data.result.n = 0

\* C25 amended: a short-page sequence over N items in pages of L that starts
\* at page p never posts more than the pages p .. N \div L + 1 (one page when
\* p lies beyond them), has posted exactly those when it ends, which is
\* N \div L + 1 dispatches from page 1, and its last page is empty when L
\* divides N.
C25_DispatchCount ==
    \A g \in DOMAIN gens :
        LET gen == gens[g]
            start == StartPage(gen.kind, gen.params)
        IN
        /\ gen.yields # <<>> => Len(gen.sent) <= C25_FromStart(g, start)
        /\ gen.pc = "done" =>
              /\ gen.response.success
              /\ Len(gen.sent) = C25_FromStart(g, start)
              /\ start = 1 => Len(gen.sent) = C25_N(g) \div C25_L(g) + 1
              /\ C25_N(g) % C25_L(g) = 0 => gen.response.data.result.n = 0

\* C25 witness: paginateSignaturesForAsset over 2 items with limit 1 has ended
\* after three dispatches, the third page empty.
C25_Witness ==
    /\ gens[1].kind = "paginateSignaturesForAsset"
    /\ gens[1].pc = "done"
    /\ gens[1].params.limit = {1}
    /\ gens[1].response.data.result.total = 2
    /\ gens[1].response.data.result.n = 0
    /\ Len(gens[1].sent) = 3
    /\ Len(gens[1].yields) = 3

\* C26 (state part): a get resolves with the value of the latest set on its
\* key when no delete followed that set and the ttl of that set, if it had
\* one, has not run out; it resolves with null in every other case.
C26_GetState ==
    LET g == direct.got
        b == g.basis
        live == /\ b.op = "set"
                /\ b.ttl # {} => g.at <= b.at + NumOf(b.ttl) * 1000
    IN
    g.called => g.value = (IF live THEN b.value ELSE NullStr)

\* C26 (step part): a set, get or delete on one key leaves what a get of any
\* other key resolves with as it was.
C26_OtherKeys ==
    LET touched == {k \in DOMAIN direct.last : direct'.last[k] # direct.last[k]}
                       \cup (IF direct'.got # direct.got THEN {direct'.got.key} ELSE {})
    IN
    now' = now =>
        \A k \in DOMAIN cache :
            k \notin touched =>
                MemoryCacheGet(cache', k, now).value = MemoryCacheGet(cache, k, now).value

\* C26: in MemoryCache a get returns the value of the most recent set on its
\* key that no delete followed and whose own ttl has not run out, returns
\* absent otherwise, and no operation on a key changes what get returns for
\* another key.
C26_MostRecentSet == [](C26_GetState) /\ [][C26_OtherKeys]_vars

====
